---- MODULE Spec2Model ----
(***************************************************************************)
(* Model of the Globe Labs channel handler (handlers/globe/globe.go):      *)
(* ReceiveMessage, the inbound webhook handler, and SendMsg, the outbound  *)
(* segmented send.                                                         *)
(***************************************************************************)
EXTENDS Integers, Sequences, FiniteSets, TLC

\* ------------------------------------------------------------------ bounds
MaxTextLen == 321
MaxEntries == 3

\* --------------------------------------------------------------- constants
maxMsgLength == 160

configPassphrase == "passphrase"
configAppSecret == "app_secret"
configAppID == "app_id"

ConfigKeys == {configAppID, configAppSecret, configPassphrase}

MsgErrored == "E"
MsgWired == "W"

NoErr == "nil"
NoStatus == [nil |-> TRUE]
NoRet == [returned |-> FALSE]

Sends == {1, 2}

\* ------------------------------------------------------------------ helpers
\* strings whose characters matter are sequences of one-character strings
HasPrefix(s, p) == Len(s) >= Len(p) /\ SubSeq(s, 1, Len(p)) = p

TrimPrefix(s, p) == IF HasPrefix(s, p) THEN SubSeq(s, Len(p) + 1, Len(s)) ELSE s

TelPrefix == <<"t", "e", "l", ":">>

\* a channel config is a map from some of the keys to string values
StringConfigForKey(cfg, key, def) == IF key \in DOMAIN cfg THEN cfg[key] ELSE def

Configs == UNION {[K -> {"", "v"}] : K \in SUBSET ConfigKeys}

\* a body text of n characters; the characters are tagged by their position
\* so that a lost, duplicated or reordered character is visible
TextOfLen(n) == [j \in 1..n |-> j]

Texts == {TextOfLen(n) : n \in 0..MaxTextLen}

RECURSIVE SplitMsg(_, _)
SplitMsg(t, max) ==
    IF Len(t) <= max THEN <<t>>
    ELSE <<SubSeq(t, 1, max)>> \o SplitMsg(SubSeq(t, max + 1, Len(t)), max)

RECURSIVE Concat(_)
Concat(ss) == IF ss = <<>> THEN <<>> ELSE Head(ss) \o Concat(Tail(ss))

MsgURNPath == [s \in Sends |-> IF s = 1 THEN <<"+", "6", "3", "9">> ELSE <<"6", "3", "9">>]

\* ---------------------------------------------------------------- inbound
LayoutOK == "Fri Nov 22 2013 12:12:13 GMT+0000 (UTC)"
LayoutBad == "2013-11-22T12:12:13Z"
DateTimes == {LayoutOK, LayoutBad}

\* time.Parse with the layout "Mon Jan 2 2006 15:04:05 GMT+0000 (UTC)"
TimeParse(s) ==
    IF s = LayoutOK THEN [err |-> NoErr, date |-> <<2013, 11, 22, 12, 12, 13>>]
    ELSE [err |-> "parse", date |-> <<>>]

SenderAddresses == {<<"t", "e", "l", ":", "+", "6", "3">>, <<"+", "6", "3">>, <<"t", "e", "l">>}

InboundSMSMessage ==
    [DateTime : DateTimes, SenderAddress : SenderAddresses,
     Message : {"Hello", "Bye"}, MessageID : {""}]

RECURSIVE SeqsUpTo(_, _)
SeqsUpTo(S, n) ==
    IF n = 0 THEN {<<>>}
    ELSE LET prev == SeqsUpTo(S, n - 1)
         IN prev \cup {Append(q, x) : q \in {p \in prev : Len(p) = n - 1}, x \in S}

\* a request body either fails to decode or decodes to a list of entries
Payloads ==
    {[decodeErr |-> TRUE, list |-> <<>>]}
    \cup {[decodeErr |-> FALSE, list |-> l] : l \in SeqsUpTo(InboundSMSMessage, MaxEntries)}

Country == "PH"

NewTelURNForCountry(path, country) == [scheme |-> "tel", path |-> path, country |-> country]

\* the sender is cut one character short of the prefix
NewIncomingMsg_cutsThree(glMsg) ==
    [urn |-> NewTelURNForCountry(SubSeq(glMsg.SenderAddress, 4, Len(glMsg.SenderAddress)), Country),
     text |-> glMsg.Message,
     externalID |-> glMsg.MessageID,
     receivedOn |-> TimeParse(glMsg.DateTime).date]

\* lines 101-102: the message of one entry
NewIncomingMsg(glMsg) ==
    [urn |-> NewTelURNForCountry(SubSeq(glMsg.SenderAddress, 5, Len(glMsg.SenderAddress)), Country),
     text |-> glMsg.Message,
     externalID |-> glMsg.MessageID,
     receivedOn |-> TimeParse(glMsg.DateTime).date]

VARIABLES
    glRequest,  \* the request body of the webhook call
    rpc,        \* position of ReceiveMessage
    k,          \* index of the entry the loop of ReceiveMessage is at
    events,     \* ReceiveMessage's events slice
    msgs,       \* ReceiveMessage's msgs slice
    written,    \* the calls of Backend().WriteMsg so far: [idx, msg, err]
    responses,  \* what was written to the http.ResponseWriter
    rret,       \* what ReceiveMessage returned
    config,     \* per send: the channel config
    urlOK,      \* per send: whether the send URL of the channel address parses
    text,       \* per send: handlers.GetTextAndAttachments(msg)
    netErr,     \* per send: the segments whose network call fails
    spc,        \* per send: position of SendMsg
    status,     \* per send: the MsgStatus
    parts,      \* per send: the segments
    i,          \* per send: index of the segment the loop is at
    requests,   \* per send: the calls of utils.MakeHTTPRequest so far
    sret        \* per send: what SendMsg returned

rvars == <<glRequest, rpc, k, events, msgs, written, responses, rret>>
svars == <<config, urlOK, text, netErr, spc, status, parts, i, requests, sret>>
vars == <<glRequest, rpc, k, events, msgs, written, responses, rret,
          config, urlOK, text, netErr, spc, status, parts, i, requests, sret>>

\* ------------------------------------------------------------------- Init
IdlePayload == [decodeErr |-> FALSE, list |-> <<>>]

\* the host invokes ReceiveMessage on one webhook call
InitReceive ==
    /\ glRequest \in Payloads
    /\ rpc = "start"
    /\ config = [s \in Sends |-> <<>>]
    /\ urlOK = [s \in Sends |-> TRUE]
    /\ text = [s \in Sends |-> <<>>]
    /\ netErr = [s \in Sends |-> {}]
    /\ spc = [s \in Sends |-> "idle"]

\* the host invokes SendMsg for one message
InitSend ==
    /\ glRequest = IdlePayload
    /\ rpc = "idle"
    /\ \E c \in Configs, u \in BOOLEAN, t \in Texts :
         \E e \in SUBSET (1..Len(SplitMsg(t, maxMsgLength))) :
            /\ config = [s \in Sends |-> IF s = 1 THEN c ELSE <<>>]
            /\ urlOK = [s \in Sends |-> IF s = 1 THEN u ELSE TRUE]
            /\ text = [s \in Sends |-> IF s = 1 THEN t ELSE <<>>]
            /\ netErr = [s \in Sends |-> IF s = 1 THEN e ELSE {}]
    /\ spc = [s \in Sends |-> IF s = 1 THEN "start" ELSE "idle"]

\* the host runs two sends for different messages, and a webhook call, at
\* the same time; short texts of one and of two segments
ConcTexts == {TextOfLen(n) : n \in {1, maxMsgLength + 1}}

ConcPayloads == {p \in Payloads : Len(p.list) <= 1}

InitConcurrent ==
    /\ glRequest \in ConcPayloads
    /\ rpc = "start"
    /\ config \in [Sends -> {c \in Configs : DOMAIN c = ConfigKeys /\ c[configAppID] = "v" /\ c[configAppSecret] = "v"}]
    /\ urlOK \in [Sends -> BOOLEAN]
    /\ text \in [Sends -> ConcTexts]
    /\ netErr \in [Sends -> SUBSET (1..2)]
    /\ \A s \in Sends : netErr[s] \subseteq 1..Len(SplitMsg(text[s], maxMsgLength))
    /\ spc = [s \in Sends |-> "start"]

Init ==
    /\ k = 0
    /\ events = <<>>
    /\ msgs = <<>>
    /\ written = <<>>
    /\ responses = <<>>
    /\ rret = NoRet
    /\ status = [s \in Sends |-> NoStatus]
    /\ parts = [s \in Sends |-> <<>>]
    /\ i = [s \in Sends |-> 0]
    /\ requests = [s \in Sends |-> <<>>]
    /\ sret = [s \in Sends |-> NoRet]
    /\ (InitReceive \/ InitSend)

InitConc ==
    /\ k = 0
    /\ events = <<>>
    /\ msgs = <<>>
    /\ written = <<>>
    /\ responses = <<>>
    /\ rret = NoRet
    /\ status = [s \in Sends |-> NoStatus]
    /\ parts = [s \in Sends |-> <<>>]
    /\ i = [s \in Sends |-> 0]
    /\ requests = [s \in Sends |-> <<>>]
    /\ sret = [s \in Sends |-> NoRet]
    /\ InitConcurrent

\* --------------------------------------------------------- ReceiveMessage
\* the error value the response writers of package courier hand back
WriteErrs == {NoErr, "write"}

Return(ev, err) == [returned |-> TRUE, events |-> ev, err |-> err]

\* line 82
IsEmptyBatch_never(req) == FALSE

IsEmptyBatch(req) == Len(req.list) = 0

\* lines 76-87: decode the body, answer an empty list, set up the slices
RecvDecode ==
    /\ rpc = "start"
    /\ IF glRequest.decodeErr
       THEN \E werr \in WriteErrs :
              /\ responses' = Append(responses, [kind |-> "error", err |-> "decode"])
              /\ rret' = Return(<<>>, werr)
              /\ rpc' = "done"
              /\ UNCHANGED k
       ELSE IF IsEmptyBatch(glRequest)
       THEN \E werr \in WriteErrs :
              /\ responses' = Append(responses, [kind |-> "ignored", err |-> "no messages, ignored"])
              /\ rret' = Return(<<>>, werr)
              /\ rpc' = "done"
              /\ UNCHANGED k
       ELSE /\ k' = 1
            /\ rpc' = "loop"
            /\ UNCHANGED <<responses, rret>>
    /\ UNCHANGED <<glRequest, events, msgs, written>>
    /\ UNCHANGED svars

\* lines 92-99: the two checks of one entry, in the order of the code
ValidationErr_noPrefixCheck(glMsg) ==
    IF TimeParse(glMsg.DateTime).err # NoErr THEN TimeParse(glMsg.DateTime).err
    ELSE NoErr

\* the timestamp is not looked at
ValidationErr_noDateCheck(glMsg) ==
    IF ~HasPrefix(glMsg.SenderAddress, TelPrefix) THEN "invalid 'senderAddress' parameter"
    ELSE NoErr

ValidationErr(glMsg) ==
    IF TimeParse(glMsg.DateTime).err # NoErr THEN TimeParse(glMsg.DateTime).err
    ELSE IF ~HasPrefix(glMsg.SenderAddress, TelPrefix) THEN "invalid 'senderAddress' parameter"
    ELSE NoErr

\* a failed check leaves the loop and falls through to line 113
RecvValidate_breaks ==
    /\ rpc = "loop"
    /\ k <= Len(glRequest.list)
    /\ IF ValidationErr(glRequest.list[k]) # NoErr
       THEN /\ k' = Len(glRequest.list) + 1
            /\ rpc' = "loop"
       ELSE /\ rpc' = "write"
            /\ UNCHANGED k
    /\ UNCHANGED <<glRequest, events, msgs, written, responses, rret>>
    /\ UNCHANGED svars

\* lines 90-99: the timestamp and the prefix of entry k
RecvValidate ==
    /\ rpc = "loop"
    /\ k <= Len(glRequest.list)
    /\ LET verr == ValidationErr(glRequest.list[k])
       IN IF verr # NoErr
          THEN \E werr \in WriteErrs :
                 /\ responses' = Append(responses, [kind |-> "error", err |-> verr])
                 /\ rret' = Return(<<>>, werr)
                 /\ rpc' = "done"
          ELSE /\ rpc' = "write"
               /\ UNCHANGED <<responses, rret>>
    /\ UNCHANGED <<glRequest, k, events, msgs, written>>
    /\ UNCHANGED svars

\* the error of WriteMsg is dropped and the loop goes on
RecvWrite_ignoresErr ==
    /\ rpc = "write"
    /\ LET msg == NewIncomingMsg(glRequest.list[k])
       IN \E err \in {NoErr, "persist"} :
            /\ written' = Append(written, [idx |-> k, msg |-> msg, err |-> err])
            /\ events' = Append(events, msg)
            /\ msgs' = Append(msgs, msg)
            /\ k' = k + 1
            /\ rpc' = "loop"
            /\ UNCHANGED rret
    /\ UNCHANGED <<glRequest, responses>>
    /\ UNCHANGED svars

\* a failed write is answered with a request error
RecvWrite_writesError ==
    /\ rpc = "write"
    /\ LET msg == NewIncomingMsg(glRequest.list[k])
       IN \E err \in {NoErr, "persist"} :
            /\ written' = Append(written, [idx |-> k, msg |-> msg, err |-> err])
            /\ IF err # NoErr
               THEN /\ responses' = Append(responses, [kind |-> "error", err |-> err])
                    /\ rret' = Return(<<>>, err)
                    /\ rpc' = "done"
                    /\ UNCHANGED <<k, events, msgs>>
               ELSE /\ events' = Append(events, msg)
                    /\ msgs' = Append(msgs, msg)
                    /\ k' = k + 1
                    /\ rpc' = "loop"
                    /\ UNCHANGED <<rret, responses>>
    /\ UNCHANGED glRequest
    /\ UNCHANGED svars

\* lines 101-110: build the message of entry k and hand it to the backend
RecvWrite ==
    /\ rpc = "write"
    /\ LET msg == NewIncomingMsg(glRequest.list[k])
       IN \E err \in {NoErr, "persist"} :
            /\ written' = Append(written, [idx |-> k, msg |-> msg, err |-> err])
            /\ IF err # NoErr
               THEN /\ rret' = Return(<<>>, err)
                    /\ rpc' = "done"
                    /\ UNCHANGED <<k, events, msgs>>
               ELSE /\ events' = Append(events, msg)
                    /\ msgs' = Append(msgs, msg)
                    /\ k' = k + 1
                    /\ rpc' = "loop"
                    /\ UNCHANGED rret
    /\ UNCHANGED <<glRequest, responses>>
    /\ UNCHANGED svars

\* line 113: the loop is over, acknowledge the messages
RecvSuccess ==
    /\ rpc = "loop"
    /\ k > Len(glRequest.list)
    /\ \E werr \in WriteErrs :
         /\ responses' = Append(responses, [kind |-> "success", msgs |-> msgs])
         /\ rret' = Return(events, werr)
    /\ rpc' = "done"
    /\ UNCHANGED <<glRequest, k, events, msgs, written>>
    /\ UNCHANGED svars

\* ---------------------------------------------------------------- SendMsg
SendReturn(st, err) == [returned |-> TRUE, status |-> st, err |-> err]

NewMsgStatusForID(st) == [nil |-> FALSE, status |-> st, logs |-> <<>>]

\* the new log is put in front of the others
AddLog_prepends(st, log) == [st EXCEPT !.logs = <<log>> \o @]

AddLog(st, log) == [st EXCEPT !.logs = Append(@, log)]

SetStatus(st, v) == [st EXCEPT !.status = v]

\* the passphrase is not looked at
MissingConfig_skipsPassphrase(cfg) ==
    IF StringConfigForKey(cfg, configAppID, "") = "" THEN configAppID
    ELSE IF StringConfigForKey(cfg, configAppSecret, "") = "" THEN configAppSecret
    ELSE "none"

\* the first key of the three, in the order SendMsg reads them, that is missing
MissingConfig(cfg) ==
    IF StringConfigForKey(cfg, configAppID, "") = "" THEN configAppID
    ELSE IF StringConfigForKey(cfg, configAppSecret, "") = "" THEN configAppSecret
    ELSE IF StringConfigForKey(cfg, configPassphrase, "") = "" THEN configPassphrase
    ELSE "none"

\* the whole text, not the segment, is put into the request
mtMsg_wholeText(s, part) ==
    [Address |-> TrimPrefix(MsgURNPath[s], <<"+">>),
     Message |-> text[s],
     Passphrase |-> StringConfigForKey(config[s], configPassphrase, ""),
     AppID |-> StringConfigForKey(config[s], configAppID, ""),
     AppSecret |-> StringConfigForKey(config[s], configAppSecret, "")]

\* lines 151-156: the request body of one segment
mtMsg(s, part) ==
    [Address |-> TrimPrefix(MsgURNPath[s], <<"+">>),
     Message |-> part,
     Passphrase |-> StringConfigForKey(config[s], configPassphrase, ""),
     AppID |-> StringConfigForKey(config[s], configAppID, ""),
     AppSecret |-> StringConfigForKey(config[s], configAppSecret, "")]

\* lines 133-149: read the config, create the status, split the text
SendStart(s) ==
    /\ spc[s] = "start"
    /\ IF MissingConfig(config[s]) # "none"
       THEN /\ sret' = [sret EXCEPT ![s] = SendReturn(NoStatus, MissingConfig(config[s]))]
            /\ spc' = [spc EXCEPT ![s] = "done"]
            /\ UNCHANGED <<status, parts, i>>
       ELSE /\ status' = [status EXCEPT ![s] = NewMsgStatusForID(MsgErrored)]
            /\ parts' = [parts EXCEPT ![s] = SplitMsg(text[s], maxMsgLength)]
            /\ i' = [i EXCEPT ![s] = 1]
            /\ spc' = [spc EXCEPT ![s] = "loop"]
            /\ UNCHANGED sret
    /\ UNCHANGED <<config, urlOK, text, netErr, requests>>
    /\ UNCHANGED rvars

\* lines 150-167: the next segment's request is built; http.NewRequest
\* hands back a nil request for a URL that does not parse, and line 163
\* dereferences it before the error is looked at
SendBuild(s) ==
    /\ spc[s] = "loop"
    /\ i[s] <= Len(parts[s])
    /\ spc' = [spc EXCEPT ![s] = IF urlOK[s] THEN "call" ELSE "panic"]
    /\ UNCHANGED <<config, urlOK, text, netErr, status, parts, i, requests, sret>>
    /\ UNCHANGED rvars

\* lines 171-175: the log is added whatever the outcome, the status is
\* set to wired only past the error check
StatusAfterCall_wiredAlways(st, log, err) == SetStatus(AddLog(st, log), MsgWired)

\* a failed call puts the status back to errored
StatusAfterCall_resetsOnError(st, log, err) ==
    IF err # NoErr THEN SetStatus(AddLog(st, log), MsgErrored)
    ELSE SetStatus(AddLog(st, log), MsgWired)

StatusAfterCall(st, log, err) ==
    IF err # NoErr THEN AddLog(st, log) ELSE SetStatus(AddLog(st, log), MsgWired)

\* line 173: what SendMsg returns when the call of a segment failed
ReturnOnError_escalates(st, err) == SendReturn(NoStatus, err)

ReturnOnError(st, err) == SendReturn(st, NoErr)

\* the result of utils.MakeHTTPRequest for segment j of send s
CallErr(s, j) == IF j \in netErr[s] THEN "transport" ELSE NoErr

\* the error is not attached to the log
NewChannelLog_noError(j, err) == [desc |-> "Message Sent", rr |-> j, err |-> NoErr]

\* line 170: the log of the call of segment j
NewChannelLog(j, err) == [desc |-> "Message Sent", rr |-> j, err |-> err]

\* a failed call does not end the loop
SendCall_continues(s) ==
    /\ spc[s] = "call"
    /\ LET err == CallErr(s, i[s])
           log == NewChannelLog(i[s], err)
       IN /\ requests' = [requests EXCEPT ![s] =
                             Append(@, [part |-> i[s], body |-> mtMsg(s, parts[s][i[s]]), err |-> err])]
          /\ status' = [status EXCEPT ![s] = StatusAfterCall(@, log, err)]
          /\ i' = [i EXCEPT ![s] = @ + 1]
          /\ spc' = [spc EXCEPT ![s] = "loop"]
          /\ UNCHANGED sret
    /\ UNCHANGED <<config, urlOK, text, netErr, parts>>
    /\ UNCHANGED rvars

\* one status is shared by all sends
SendCall_sharedStatus(s) ==
    /\ spc[s] = "call"
    /\ LET err == CallErr(s, i[s])
           log == NewChannelLog(i[s], err)
       IN /\ requests' = [requests EXCEPT ![s] =
                             Append(@, [part |-> i[s], body |-> mtMsg(s, parts[s][i[s]]), err |-> err])]
          /\ status' = [status EXCEPT ![1] = StatusAfterCall(@, log, err)]
          /\ IF err # NoErr
             THEN /\ sret' = [sret EXCEPT ![s] = ReturnOnError(StatusAfterCall(status[1], log, err), err)]
                  /\ spc' = [spc EXCEPT ![s] = "done"]
                  /\ UNCHANGED i
             ELSE /\ i' = [i EXCEPT ![s] = @ + 1]
                  /\ spc' = [spc EXCEPT ![s] = "loop"]
                  /\ UNCHANGED sret
    /\ UNCHANGED <<config, urlOK, text, netErr, parts>>
    /\ UNCHANGED rvars

\* lines 169-175: the network call of segment i, its log, the status
SendCall(s) ==
    /\ spc[s] = "call"
    /\ LET err == CallErr(s, i[s])
           log == NewChannelLog(i[s], err)
       IN /\ requests' = [requests EXCEPT ![s] =
                             Append(@, [part |-> i[s], body |-> mtMsg(s, parts[s][i[s]]), err |-> err])]
          /\ status' = [status EXCEPT ![s] = StatusAfterCall(@, log, err)]
          /\ IF err # NoErr
             THEN /\ sret' = [sret EXCEPT ![s] = ReturnOnError(StatusAfterCall(status[s], log, err), err)]
                  /\ spc' = [spc EXCEPT ![s] = "done"]
                  /\ UNCHANGED i
             ELSE /\ i' = [i EXCEPT ![s] = @ + 1]
                  /\ spc' = [spc EXCEPT ![s] = "loop"]
                  /\ UNCHANGED sret
    /\ UNCHANGED <<config, urlOK, text, netErr, parts>>
    /\ UNCHANGED rvars

\* line 178: the loop is over
SendDone(s) ==
    /\ spc[s] = "loop"
    /\ i[s] > Len(parts[s])
    /\ sret' = [sret EXCEPT ![s] = SendReturn(status[s], NoErr)]
    /\ spc' = [spc EXCEPT ![s] = "done"]
    /\ UNCHANGED <<config, urlOK, text, netErr, status, parts, i, requests>>
    /\ UNCHANGED rvars

Next ==
    \/ RecvDecode
    \/ RecvValidate
    \/ RecvWrite
    \/ RecvSuccess
    \/ \E s \in Sends : SendStart(s)
    \/ \E s \in Sends : SendBuild(s)
    \/ \E s \in Sends : SendCall(s)
    \/ \E s \in Sends : SendDone(s)

Spec == Init /\ [][Next]_vars

SpecConc == InitConc /\ [][Next]_vars

\* ================================================================= claims
\* all three keys are present with a non-empty value
ConfigComplete(s) == \A key \in ConfigKeys : key \in DOMAIN config[s] /\ config[s][key] # ""

Ended(s) == spc[s] = "done"

\* the first segment whose call fails, or the number of segments if none does
FirstFailure(s) ==
    IF netErr[s] = {} THEN Len(parts[s])
    ELSE CHOOSE m \in netErr[s] : \A n \in netErr[s] : m <= n

EntryValid(e) == TimeParse(e.DateTime).err = NoErr /\ HasPrefix(e.SenderAddress, TelPrefix)

NumEntries == Len(glRequest.list)

HasInvalid == \E j \in 1..NumEntries : ~EntryValid(glRequest.list[j])

FirstInvalid == CHOOSE m \in 1..NumEntries :
    /\ ~EntryValid(glRequest.list[m])
    /\ \A n \in 1..(m - 1) : EntryValid(glRequest.list[n])

PersistFailed == \E p \in 1..Len(written) : written[p].err # NoErr

SuccessWritten == \E r \in 1..Len(responses) : responses[r].kind = "success"

\* C1 (as stated): a send with a complete config and N segments makes
\* exactly N network calls, whatever subset of the calls fails.
C1_EverySegmentAttempted ==
    \A s \in Sends :
        (Ended(s) /\ ConfigComplete(s)) => Len(requests[s]) = Len(parts[s])

\* C1 (amended): a send with a complete config that returns has made the
\* calls of segments 1..m in order and no other, m being the first segment
\* whose call fails with a transport error, or N when no call fails.
C1_AttemptedUpToFirstFailure ==
    \A s \in Sends :
        (Ended(s) /\ ConfigComplete(s)) =>
            /\ Len(requests[s]) = FirstFailure(s)
            /\ \A j \in 1..Len(requests[s]) :
                 /\ requests[s][j].part = j
                 /\ (requests[s][j].err # NoErr) <=> (j \in netErr[s])

C1_Witness ==
    /\ Ended(1) /\ ConfigComplete(1)
    /\ Len(parts[1]) = 3
    /\ netErr[1] = {2}
    /\ Len(requests[1]) = 2

\* C2 (as stated): with segments [A, B], A's call failing and B's
\* succeeding, the returned status is wired and its log has 2 entries.
C2_FailThenSucceedIsWired ==
    \A s \in Sends :
        (Ended(s) /\ ConfigComplete(s) /\ Len(parts[s]) = 2 /\ netErr[s] = {1}) =>
            /\ ~sret[s].status.nil
            /\ sret[s].status.status = MsgWired
            /\ Len(sret[s].status.logs) = 2

\* C2 (amended): the returned status is wired if and only if at least one
\* call completed without transport error, otherwise errored; its log holds
\* one entry per call made, in segment order; with segments [A, B] and A's
\* call failing, B is not called, the status is errored and the log holds
\* exactly A's entry.
C2_WiredIffSomeCallSucceeded ==
    \A s \in Sends :
        (Ended(s) /\ ConfigComplete(s)) =>
            /\ sret[s].returned
            /\ ~sret[s].status.nil
            /\ LET st == sret[s].status
               IN /\ st.status \in {MsgWired, MsgErrored}
                  /\ (st.status = MsgWired) <=>
                        (\E j \in 1..Len(requests[s]) : requests[s][j].err = NoErr)
                  /\ Len(st.logs) = Len(requests[s])
                  /\ \A j \in 1..Len(st.logs) :
                       st.logs[j].rr = j /\ st.logs[j].err = requests[s][j].err
                  /\ (Len(parts[s]) = 2 /\ 1 \in netErr[s]) =>
                        (st.status = MsgErrored /\ Len(st.logs) = 1)

C2_Witness ==
    /\ Ended(1) /\ ConfigComplete(1)
    /\ Len(parts[1]) = 2
    /\ netErr[1] = {1}
    /\ sret[1].status.status = MsgErrored
    /\ Len(sret[1].status.logs) = 1

\* C3 (as stated): when some entry of the payload has a bad timestamp or a
\* sender without the "tel:" prefix, WriteMsg is never called.
C3_NothingPersisted ==
    (rpc = "done" /\ ~glRequest.decodeErr /\ HasInvalid) => written = <<>>

\* C3 (amended): when entry K is the first entry with a bad timestamp or a
\* sender without the "tel:" prefix, no entry at position K or later is ever
\* written, no message is returned and no success is acknowledged; the
\* entries before K are written, once each and in order, before K is looked
\* at (all of them unless a write fails).
C3_PersistsOnlyBeforeFirstInvalid ==
    (~glRequest.decodeErr /\ HasInvalid) =>
        /\ \A j \in 1..Len(written) : written[j].idx = j /\ j < FirstInvalid
        /\ ~SuccessWritten
        /\ rpc = "done" =>
             /\ rret.events = <<>>
             /\ ~PersistFailed =>
                  /\ Len(written) = FirstInvalid - 1
                  /\ Len(responses) = 1
                  /\ responses[1].kind = "error"

C3_Witness ==
    /\ rpc = "done" /\ ~glRequest.decodeErr /\ HasInvalid
    /\ FirstInvalid = 3
    /\ Len(written) = 2
    /\ ~PersistFailed
    /\ Len(responses) = 1 /\ responses[1].kind = "error"
\* C4: when app_id, app_secret or passphrase is absent or empty, SendMsg
\* returns an error naming the first missing key and no status; no status is
\* created, no segment is built, no network call is made, no log is added.
C4_MissingConfigAbortsFirst ==
    \A s \in Sends :
        (spc[s] \notin {"idle", "start"} /\ ~ConfigComplete(s)) =>
            /\ spc[s] = "done"
            /\ sret[s].returned
            /\ sret[s].status = NoStatus
            /\ sret[s].err \in ConfigKeys
            /\ StringConfigForKey(config[s], sret[s].err, "") = ""
            /\ status[s] = NoStatus
            /\ parts[s] = <<>>
            /\ requests[s] = <<>>

C4_Witness ==
    /\ Ended(1)
    /\ StringConfigForKey(config[1], configAppID, "") = "v"
    /\ StringConfigForKey(config[1], configAppSecret, "") = "v"
    /\ configPassphrase \notin DOMAIN config[1]
    /\ Len(text[1]) = 161
    /\ sret[1].err = configPassphrase

\* C5: a payload that decodes to zero entries gets the "ignored" answer and
\* nothing else, no message is returned and WriteMsg is not called.
C5_EmptyBatchIgnored ==
    (rpc # "idle" /\ ~glRequest.decodeErr /\ NumEntries = 0) =>
        /\ written = <<>>
        /\ \A r \in 1..Len(responses) : responses[r].kind = "ignored"
        /\ rpc \in {"start", "done"}
        /\ rpc = "done" =>
             /\ Len(responses) = 1
             /\ rret.returned
             /\ rret.events = <<>>

C5_Witness ==
    /\ rpc = "done" /\ ~glRequest.decodeErr /\ NumEntries = 0
    /\ Len(responses) = 1 /\ responses[1].kind = "ignored"

\* C6: for N >= 1 entries, all with a valid timestamp and a "tel:" sender,
\* and every write succeeding, ReceiveMessage returns N messages in entry
\* order, after one write per entry in the same order, each message with the
\* entry's text and the sender without its "tel:" prefix.
C6_ValidBatchReturnsAll ==
    (rpc = "done" /\ ~glRequest.decodeErr /\ NumEntries >= 1 /\ ~HasInvalid /\ ~PersistFailed) =>
        /\ rret.returned
        /\ Len(rret.events) = NumEntries
        /\ Len(written) = NumEntries
        /\ \A j \in 1..NumEntries :
             /\ written[j].idx = j
             /\ written[j].msg = rret.events[j]
             /\ rret.events[j].text = glRequest.list[j].Message
             /\ TelPrefix \o rret.events[j].urn.path = glRequest.list[j].SenderAddress
             /\ rret.events[j].urn.country = Country

C6_Witness ==
    /\ rpc = "done" /\ ~glRequest.decodeErr /\ ~HasInvalid /\ ~PersistFailed
    /\ NumEntries = 3
    /\ glRequest.list[1].Message # glRequest.list[2].Message
    /\ Len(rret.events) = 3

C8_PersistFailureAborts ==
    /\ \A p, q \in 1..Len(written) : written[p].idx = written[q].idx => p = q
    /\ \A p \in 1..Len(written) :
         written[p].err # NoErr =>
            /\ p = Len(written)
            /\ rpc = "done"
            /\ k = written[p].idx
            /\ responses = <<>>
            /\ rret = Return(<<>>, written[p].err)

C8_Witness ==
    /\ NumEntries = 3
    /\ Len(written) = 2
    /\ written[2].err = "persist"
    /\ rpc = "done"

\* C9: a success is acknowledged only when every entry of the batch has
\* passed both checks and been written, and it then covers all N messages;
\* when an entry fails a check or a write, no success is acknowledged and
\* no message is returned.
C9_AckAllOrNothing ==
    /\ SuccessWritten =>
         /\ Len(responses) = 1
         /\ ~HasInvalid /\ ~PersistFailed
         /\ Len(written) = NumEntries
         /\ Len(responses[1].msgs) = NumEntries
         /\ \A j \in 1..NumEntries : responses[1].msgs[j] = written[j].msg
         /\ rret.returned /\ rret.events = responses[1].msgs
    /\ (rpc = "done" /\ (glRequest.decodeErr \/ HasInvalid \/ PersistFailed)) =>
         /\ ~SuccessWritten
         /\ rret.events = <<>>

C9_Witness ==
    /\ SuccessWritten
    /\ NumEntries = 2
    /\ Len(responses[1].msgs) = 2

\* C10: with a complete config, whatever SendMsg returns is a status and a
\* nil error; a call that fails with a transport error ends the send with
\* that return, the error is the last entry of the log, and the status is
\* wired only if an earlier call succeeded. (A send URL that does not parse
\* is not a transport error: no call is made, SendMsg returns nothing.)
C10_TransportErrorNotEscalated ==
    \A s \in Sends :
        /\ (Ended(s) /\ ConfigComplete(s)) =>
              /\ sret[s].returned
              /\ sret[s].err = NoErr
              /\ sret[s].status = status[s]
              /\ ~sret[s].status.nil
        /\ \A j \in 1..Len(requests[s]) :
              requests[s][j].err # NoErr =>
                 /\ Ended(s)
                 /\ j = Len(requests[s])
                 /\ sret[s].err = NoErr
                 /\ ~sret[s].status.nil
                 /\ Len(sret[s].status.logs) = j
                 /\ sret[s].status.logs[j].err = requests[s][j].err
                 /\ (sret[s].status.status = MsgWired) <=> (j > 1)
        /\ spc[s] = "panic" => (~urlOK[s] /\ requests[s] = <<>>)

C10_Witness ==
    /\ Ended(1) /\ ConfigComplete(1)
    /\ Len(parts[1]) = 2
    /\ netErr[1] = {1, 2}
    /\ sret[1].err = NoErr
    /\ Len(sret[1].status.logs) = 1
    /\ sret[1].status.logs[1].err = "transport"
\* C11: the segments of a send are called one after the other in segment
\* order: when the call of segment n begins, the calls of segments 1..n-1
\* and no others have completed and each has its log entry, so the log is in
\* segment order; a call adds exactly the next segment's request and entry.
C11_SequentialInOrder ==
    /\ [](\A s \in Sends :
            /\ \A j \in 1..Len(requests[s]) : requests[s][j].part = j
            /\ ~status[s].nil =>
                 /\ Len(status[s].logs) = Len(requests[s])
                 /\ \A j \in 1..Len(status[s].logs) : status[s].logs[j].rr = j
            /\ spc[s] = "call" =>
                 /\ i[s] \in 1..Len(parts[s])
                 /\ Len(requests[s]) = i[s] - 1
                 /\ Len(status[s].logs) = i[s] - 1)
    /\ [][\A s \in Sends :
            requests'[s] # requests[s] =>
               /\ spc[s] = "call"
               /\ Len(requests'[s]) = Len(requests[s]) + 1
               /\ SubSeq(requests'[s], 1, Len(requests[s])) = requests[s]
               /\ Len(status'[s].logs) = Len(requests'[s])
               /\ SubSeq(status'[s].logs, 1, Len(status[s].logs)) = status[s].logs
               /\ status'[s].logs[Len(status'[s].logs)].rr = Len(requests'[s])]_vars

C11_Witness ==
    /\ spc[1] = "call"
    /\ i[1] = 3
    /\ Len(requests[1]) = 2
    /\ Len(status[1].logs) = 2
    /\ status[1].logs[1].rr = 1 /\ status[1].logs[2].rr = 2

\* C12: at every point of a send the status has one log entry per network
\* call completed so far; the entry of a failed call carries the transport
\* error, the entry of a successful call carries none.
C12_OneLogPerCall ==
    \A s \in Sends :
        /\ status[s].nil => requests[s] = <<>>
        /\ ~status[s].nil =>
             /\ Len(status[s].logs) = Len(requests[s])
             /\ \A j \in 1..Len(requests[s]) :
                  /\ (j \in netErr[s]) => status[s].logs[j].err = "transport"
                  /\ (j \notin netErr[s]) => status[s].logs[j].err = NoErr
                  /\ status[s].logs[j].err = requests[s][j].err

C12_Witness ==
    /\ Len(requests[1]) = 3
    /\ netErr[1] = {3}
    /\ Len(status[1].logs) = 3
    /\ status[1].logs[2].err = NoErr
    /\ status[1].logs[3].err = "transport"

\* C13: the status of a send starts errored; it is wired only when a call
\* of this send has completed without transport error; once wired it stays
\* wired, also when a later call fails.
C13_WiredMonotone ==
    /\ [](\A s \in Sends :
            ~status[s].nil =>
               /\ status[s].status \in {MsgErrored, MsgWired}
               /\ requests[s] = <<>> => status[s].status = MsgErrored
               /\ status[s].status = MsgWired =>
                    \E j \in 1..Len(requests[s]) : requests[s][j].err = NoErr)
    /\ [][\A s \in Sends :
            /\ (status[s].nil /\ ~status'[s].nil) => status'[s].status = MsgErrored
            /\ (~status[s].nil /\ status[s].status = MsgWired) =>
                 (~status'[s].nil /\ status'[s].status = MsgWired)]_vars

C13_Witness ==
    /\ Ended(1)
    /\ Len(requests[1]) = 2
    /\ requests[1][1].err = NoErr
    /\ requests[1][2].err = "transport"
    /\ status[1].status = MsgWired
\* what a send returns when it runs alone, from its own config, its own
\* segments and the outcomes of its own calls
AloneLogs(s) ==
    [j \in 1..FirstFailure(s) |->
        [desc |-> "Message Sent", rr |-> j, err |-> IF j \in netErr[s] THEN "transport" ELSE NoErr]]

AloneStatus(s) ==
    [nil |-> FALSE,
     status |-> IF 1 \in netErr[s] THEN MsgErrored ELSE MsgWired,
     logs |-> AloneLogs(s)]

\* C14: two sends for different messages interleaved in any order: each
\* one's returned status and log are those it has when it runs alone, fixed
\* by its own config, segments and call outcomes; at every point the log of
\* a send holds the entries of its own calls and no others.
C14_SendsIndependent ==
    \A s \in Sends :
        /\ ~status[s].nil =>
             /\ Len(status[s].logs) = Len(requests[s])
             /\ \A j \in 1..Len(status[s].logs) :
                  /\ status[s].logs[j].rr = requests[s][j].part
                  /\ status[s].logs[j].err = requests[s][j].err
                  /\ requests[s][j].body.Message = SplitMsg(text[s], maxMsgLength)[j]
        /\ (Ended(s) /\ ConfigComplete(s)) =>
             /\ parts[s] = SplitMsg(text[s], maxMsgLength)
             /\ sret[s] = SendReturn(AloneStatus(s), NoErr)
        /\ (Ended(s) /\ ~ConfigComplete(s)) =>
             (sret[s].status = NoStatus /\ sret[s].err \in ConfigKeys)

C14_Witness ==
    /\ Ended(1) /\ Ended(2)
    /\ ConfigComplete(1) /\ ConfigComplete(2)
    /\ Len(parts[1]) = 2 /\ netErr[1] = {2}
    /\ Len(parts[2]) = 2 /\ netErr[2] = {1}
    /\ sret[1].status.status = MsgWired /\ Len(sret[1].status.logs) = 2
    /\ sret[2].status.status = MsgErrored /\ Len(sret[2].status.logs) = 1
\* C15: at every point of ReceiveMessage the writes so far are those of
\* the entries 1..n of the payload in list order, each entry having passed
\* its timestamp and prefix checks before its write and every write but the
\* last having succeeded; checks and writes alternate entry by entry, the
\* entries after the one at hand have not been looked at.
C15_WritesArePrefix ==
    /\ Len(written) <= NumEntries
    /\ \A j \in 1..Len(written) :
         /\ written[j].idx = j
         /\ EntryValid(glRequest.list[j])
         /\ written[j].msg.text = glRequest.list[j].Message
         /\ TelPrefix \o written[j].msg.urn.path = glRequest.list[j].SenderAddress
         /\ j < Len(written) => written[j].err = NoErr
    /\ rpc = "write" =>
         /\ k \in 1..NumEntries
         /\ EntryValid(glRequest.list[k])
         /\ Len(written) = k - 1
    /\ (rpc = "loop" /\ ~PersistFailed) => Len(written) = k - 1
    /\ (rpc \in {"loop", "write"}) => (\A j \in 1..(k - 1) : EntryValid(glRequest.list[j]))

C15_Witness ==
    /\ rpc = "loop"
    /\ k = 2
    /\ Len(written) = 1
    /\ NumEntries = 3
    /\ ~EntryValid(glRequest.list[3])

\* C16: in a status that SendMsg returns at most one log entry holds a
\* transport error; if there is one it is the last entry, and every entry
\* before it is of a call that succeeded.
C16_ErrorOnlyLastInLog ==
    \A s \in Sends :
        (sret[s].returned /\ ~sret[s].status.nil) =>
            LET logs == sret[s].status.logs
            IN /\ Cardinality({j \in 1..Len(logs) : logs[j].err # NoErr}) <= 1
               /\ \A j \in 1..Len(logs) :
                    logs[j].err # NoErr => j = Len(logs)
               /\ \A j \in 1..(Len(logs) - 1) :
                    logs[j].err = NoErr /\ j \notin netErr[s]

C16_Witness ==
    /\ sret[1].returned /\ ~sret[1].status.nil
    /\ netErr[1] = {2, 3}
    /\ Len(sret[1].status.logs) = 2
    /\ sret[1].status.logs[1].err = NoErr
    /\ sret[1].status.logs[2].err = "transport"

\* C17: one call of ReceiveMessage writes at most one response; it is a
\* request error when the body does not decode or an entry fails its
\* timestamp or prefix check, "ignored" for an empty list, a success when
\* every entry was written; no response is written when a write failed.
C17_AtMostOneResponse ==
    /\ Len(responses) <= 1
    /\ \A r \in 1..Len(responses) : responses[r].kind \in {"error", "ignored", "success"}
    /\ rpc # "done" => responses = <<>>
    /\ rpc = "done" =>
         /\ PersistFailed <=> responses = <<>>
         /\ ~PersistFailed =>
              /\ Len(responses) = 1
              /\ responses[1].kind =
                    IF glRequest.decodeErr THEN "error"
                    ELSE IF NumEntries = 0 THEN "ignored"
                    ELSE IF HasInvalid THEN "error"
                    ELSE "success"

C17_Witness ==
    /\ rpc = "done"
    /\ PersistFailed
    /\ HasInvalid
    /\ responses = <<>>
    /\ rret.err = "persist"

====
